---- MODULE Spec2Model ----
(***************************************************************************)
(* Gordon-Loeb dashboard (src/app.py): the optimal-investment formula, the *)
(* NIST tier ladder, the chart data, and the Streamlit rerun-on-change     *)
(* execution of the script.                                                *)
(*                                                                         *)
(* Numbers.  The script computes in binary64.  Here a float is an integer  *)
(* count of 1/Scale units, every arithmetic operation returns the          *)
(* representable value nearest to the exact result (ties to even), as      *)
(* IEEE-754 does at its own resolution, and NaN is a value of its own.     *)
(***************************************************************************)
EXTENDS Integers, Sequences, FiniteSets, TLC

\* Resolution of the modelled floats: 1.0 is Scale units.
Scale == 1000

\* The float that is not a number (what np.sqrt gives for a negative input).
NaN == -(Scale * Scale * Scale)

IsNaN(x) == x = NaN

\* n / d (d > 0) rounded to the nearest integer, ties to even.
RoundDiv(n, d) ==
  LET q == n \div d
      r == n - q * d
  IN  IF 2 * r < d THEN q
      ELSE IF 2 * r > d THEN q + 1
      ELSE IF q % 2 = 0 THEN q ELSE q + 1

\* Float comparisons: every comparison with NaN is false.
flt_lt(a, b) == ~IsNaN(a) /\ ~IsNaN(b) /\ a < b
flt_gt(a, b) == ~IsNaN(a) /\ ~IsNaN(b) /\ a > b
flt_ge(a, b) == ~IsNaN(a) /\ ~IsNaN(b) /\ a >= b

\* a * b and a - b on floats.
flt_mul(a, b) == IF IsNaN(a) \/ IsNaN(b) THEN NaN ELSE RoundDiv(a * b, Scale)
flt_sub(a, b) == IF IsNaN(a) \/ IsNaN(b) THEN NaN ELSE a - b

\* An integer literal of the script as a float.
lit(n) == n * Scale

\* Newton's iteration for the integer square root: from any x >= isqrt(n),
\* it descends to the largest r with r * r <= n.
RECURSIVE isqrt_newton(_, _)
isqrt_newton(n, x) ==
  IF n = 0 THEN 0
  ELSE LET y == (x + n \div x) \div 2
       IN  IF y >= x THEN x ELSE isqrt_newton(n, y)

\* np.sqrt: NaN for a negative (or NaN) input, no exception; otherwise the
\* representable value nearest to the exact root sqrt(x / Scale) * Scale.
\* (x + Scale) / 2 bounds the root from above (arithmetic over geometric mean).
np_sqrt(x) ==
  IF IsNaN(x) \/ x < 0 THEN NaN
  ELSE LET n == x * Scale
           r == isqrt_newton(n, (x + Scale) \div 2 + 1)
       IN  IF n - r * r > r THEN r + 1 ELSE r

\* A max that forgets the floor: the second argument as it is.
py_max_unfloored(a, b) == b

\* Python's max(a, b): a, unless b > a.
py_max(a, b) == IF flt_gt(b, a) THEN b ELSE a

\* The formula with 1 subtracted instead of 2.
calculate_optimal_investment_minus_one(v, L) ==
  LET term == flt_mul(flt_mul(lit(2), v), L)
  IN  IF flt_lt(term, 0)
      THEN [term |-> term, guarded |-> TRUE, sqrt_evaluated |-> FALSE, ret |-> 0]
      ELSE LET z == flt_sub(np_sqrt(term), lit(1))
           IN  [term |-> term, guarded |-> FALSE, sqrt_evaluated |-> TRUE,
                ret |-> py_max(0, z)]

\* The formula with the subtraction the wrong way round: 2 - sqrt(term).
calculate_optimal_investment_flipped(v, L) ==
  LET term == flt_mul(flt_mul(lit(2), v), L)
  IN  IF flt_lt(term, 0)
      THEN [term |-> term, guarded |-> TRUE, sqrt_evaluated |-> FALSE, ret |-> 0]
      ELSE LET z == flt_sub(lit(2), np_sqrt(term))
           IN  [term |-> term, guarded |-> FALSE, sqrt_evaluated |-> TRUE,
                ret |-> py_max(0, z)]

\* The formula with 1 - v where v belongs.
calculate_optimal_investment_complement(v, L) ==
  LET term == flt_mul(flt_mul(lit(2), flt_sub(lit(1), v)), L)
  IN  IF flt_lt(term, 0)
      THEN [term |-> term, guarded |-> TRUE, sqrt_evaluated |-> FALSE, ret |-> 0]
      ELSE LET z == flt_sub(np_sqrt(term), lit(2))
           IN  [term |-> term, guarded |-> FALSE, sqrt_evaluated |-> TRUE,
                ret |-> py_max(0, z)]

\* The formula without the guard of lines 55-56.
calculate_optimal_investment_unguarded(v, L) ==
  LET term == flt_mul(flt_mul(lit(2), v), L)
      z == flt_sub(np_sqrt(term), lit(2))
  IN  [term |-> term, guarded |-> FALSE, sqrt_evaluated |-> TRUE,
       ret |-> py_max(0, z)]

\* calculate_optimal_investment(v, L), with what its execution did:
\* the radicand, whether the guard returned early, whether np.sqrt ran.
calculate_optimal_investment_run(v, L) ==
  LET term == flt_mul(flt_mul(lit(2), v), L)
  IN  IF flt_lt(term, 0)
      THEN [term |-> term, guarded |-> TRUE, sqrt_evaluated |-> FALSE, ret |-> 0]
      ELSE LET z == flt_sub(np_sqrt(term), lit(2))
           IN  [term |-> term, guarded |-> FALSE, sqrt_evaluated |-> TRUE,
                ret |-> py_max(0, z)]

calculate_optimal_investment(v, L) == calculate_optimal_investment_run(v, L).ret

\* The NIST tier ladder of lines 75-81.
Tier1 == "Tier 1 (Partial)"
Tier2 == "Tier 2 (Risk Informed)"
Tier3 == "Tier 3 (Repeatable)"
Tier4 == "Tier 4 (Adaptive)"
Tiers == {Tier1, Tier2, Tier3, Tier4}

tier_threshold_4 == 7000
tier_threshold_3 == 3000
tier_threshold_2 == 1000

\* The ladder with strict comparisons.
tier_ladder_strict(z) ==
  IF flt_gt(z, tier_threshold_4) THEN Tier4
  ELSE IF flt_gt(z, tier_threshold_3) THEN Tier3
  ELSE IF flt_gt(z, tier_threshold_2) THEN Tier2
  ELSE Tier1

\* The ladder with the labels of its two upper rungs exchanged.
tier_ladder_swapped(z) ==
  IF flt_ge(z, tier_threshold_4) THEN Tier3
  ELSE IF flt_ge(z, tier_threshold_3) THEN Tier4
  ELSE IF flt_ge(z, tier_threshold_2) THEN Tier2
  ELSE Tier1

tier_ladder(z) ==
  IF flt_ge(z, tier_threshold_4) THEN Tier4
  ELSE IF flt_ge(z, tier_threshold_3) THEN Tier3
  ELSE IF flt_ge(z, tier_threshold_2) THEN Tier2
  ELSE Tier1

TierRank(t) == CASE t = Tier1 -> 1 [] t = Tier2 -> 2 [] t = Tier3 -> 3 [] t = Tier4 -> 4

\* linspace with endpoint=False: num samples, stop not among them.
np_linspace_open(start, stop, num) ==
  [k \in 1..num |-> start + RoundDiv((k - 1) * (stop - start), num)]

\* np.linspace(start, stop, num) with endpoint=True, as a sequence indexed
\* from 1: num samples, sample i at start + i * (stop - start) / (num - 1)
\* rounded to a representable value, the last one set to stop itself.
np_linspace(start, stop, num) ==
  [k \in 1..num |->
     IF k = num THEN stop
     ELSE start + RoundDiv((k - 1) * (stop - start), num - 1)]

\* The sidebar sliders (lines 26-42), in 1/Scale units.
L_min_value == 1000
L_max_value == 150000
L_value == 72600
L_step == 100
v_min_value == 0
v_max_value == 1000
v_value == 300
v_step == 50

\* The chart's sampling (line 95) and its reference vulnerabilities (98-100).
linspace_start == 0
linspace_stop == 150000
linspace_num == 300
v_ref_1 == 100
v_ref_3 == 300
v_ref_5 == 500

\* [calculate_optimal_investment(v, l) for l in L_range]
curve(v, Ls) == [k \in 1..Len(Ls) |-> calculate_optimal_investment(v, Ls[k])]

\* Lines 95 and 98-100 take no input: every run of the script computes the
\* same four values.
L_range_value == np_linspace(linspace_start, linspace_stop, linspace_num)
z_v1_value == curve(v_ref_1, L_range_value)
z_v3_value == curve(v_ref_3, L_range_value)
z_v5_value == curve(v_ref_5, L_range_value)

VARIABLES
  v_input,      \* the vulnerability slider's value
  L_input,      \* the loss slider's value
  call,         \* the execution of the call of line 64
  optimal_z,    \* line 64
  tier,         \* lines 75-81
  L_range,      \* line 95
  z_v1, z_v3, z_v5, z_user,   \* lines 98-101
  scatter,      \* the highlighted point of line 114
  pc,           \* "args": inputs chosen, nothing computed yet; "done": computed
  prev          \* the arguments and results of the evaluation before this one

vars == <<v_input, L_input, call, optimal_z, tier, L_range,
          z_v1, z_v3, z_v5, z_user, scatter, pc, prev>>

chart == <<L_range, z_v1, z_v3, z_v5, z_user, scatter>>

NoCall == [term |-> 0, guarded |-> FALSE, sqrt_evaluated |-> FALSE, ret |-> 0]
NoPrev == [valid |-> FALSE, v |-> 0, L |-> 0, ret |-> 0, tier |-> Tier1]

(***************************************************************************)
(* The dashboard: one run of the whole script per slider change.           *)
(***************************************************************************)

\* An incremental update: what the moved slider feeds is recomputed, the tier
\* label and the highlighted point are kept from the run before.
Rerun_incremental(v, L) ==
  /\ v_input' = v
  /\ L_input' = L
  /\ call' = calculate_optimal_investment_run(v, L)
  /\ optimal_z' = call'.ret
  /\ z_user' = curve(v, L_range)
  /\ pc' = "done"
  /\ UNCHANGED <<tier, L_range, z_v1, z_v3, z_v5, scatter, prev>>

\* One top-to-bottom run of the script with the sliders at (v, L): lines 64,
\* 75-81, 95, 98-101 and 114, in the script's order.
Rerun(v, L) ==
  /\ v_input' = v
  /\ L_input' = L
  /\ call' = calculate_optimal_investment_run(v, L)
  /\ optimal_z' = call'.ret
  /\ tier' = tier_ladder(optimal_z')
  /\ L_range' = L_range_value
  /\ z_v1' = z_v1_value
  /\ z_v3' = z_v3_value
  /\ z_v5' = z_v5_value
  /\ z_user' = curve(v, L_range')
  /\ scatter' = <<L_input', optimal_z'>>
  /\ pc' = "done"
  /\ UNCHANGED prev

\* Every position of each slider.
LSliderPositions ==
  {L_min_value + k * L_step : k \in 0..((L_max_value - L_min_value) \div L_step)}
VSliderPositions ==
  {v_min_value + k * v_step : k \in 0..((v_max_value - v_min_value) \div v_step)}

\* The loss positions the modelled user moves to: every LStride-th one, the
\* two ends, and the default.
LStride == 250
LStops ==
  {l \in LSliderPositions : ((l - L_min_value) \div L_step) % LStride = 0}
    \cup {L_max_value, L_value}

\* The page as first served: the script has run once with the sliders at
\* their defaults.
Init ==
  /\ v_input = v_value
  /\ L_input = L_value
  /\ call = calculate_optimal_investment_run(v_input, L_input)
  /\ optimal_z = call.ret
  /\ tier = tier_ladder(optimal_z)
  /\ L_range = L_range_value
  /\ z_v1 = z_v1_value
  /\ z_v3 = z_v3_value
  /\ z_v5 = z_v5_value
  /\ z_user = curve(v_input, L_range)
  /\ scatter = <<L_input, optimal_z>>
  /\ pc = "done"
  /\ prev = NoPrev

ChangeL == \E l \in LStops : l # L_input /\ Rerun(v_input, l)
ChangeV == \E v \in VSliderPositions : v # v_input /\ Rerun(v, L_input)

Next == ChangeL \/ ChangeV

Spec == Init /\ [][Next]_vars

(***************************************************************************)
(* The computational core (lines 47-81) applied to arguments outside the   *)
(* sliders' ranges: the formula is defined for any two reals.              *)
(***************************************************************************)
\* The arguments tried: v on a uniform grid, L on a quadratic one (the result
\* grows with the square root of L), both with a few negative values.
VArgStep == 125
LArgUnit == 125
MaxVk == 8
NegVk == 2
MaxLk == 20
NegLk == 2
VArgs == {k * VArgStep : k \in -NegVk..MaxVk}
LArgs == {k * k * LArgUnit : k \in 0..MaxLk} \cup {-(k * k * LArgUnit) : k \in 1..NegLk}

\* Lines 64 and 75-81 for the arguments (v, L).
Compute(v, L) ==
  /\ v_input' = v
  /\ L_input' = L
  /\ call' = calculate_optimal_investment_run(v, L)
  /\ optimal_z' = call'.ret
  /\ tier' = tier_ladder(optimal_z')
  /\ pc' = "done"
  /\ prev' = IF pc = "done"
             THEN [valid |-> TRUE, v |-> v_input, L |-> L_input,
                   ret |-> call.ret, tier |-> tier]
             ELSE NoPrev
  /\ UNCHANGED chart

InitCore ==
  /\ v_input \in VArgs
  /\ L_input \in LArgs
  /\ call = NoCall
  /\ optimal_z = 0
  /\ tier = Tier1
  /\ L_range = <<>> /\ z_v1 = <<>> /\ z_v3 = <<>> /\ z_v5 = <<>> /\ z_user = <<>>
  /\ scatter = <<>>
  /\ pc = "args"
  /\ prev = NoPrev

Evaluate == pc = "args" /\ Compute(v_input, L_input)
EvaluateNextL == pc = "done" /\ \E l \in LArgs : l # L_input /\ Compute(v_input, l)
EvaluateNextV == pc = "done" /\ \E v \in VArgs : v # v_input /\ Compute(v, L_input)

NextCore == Evaluate \/ EvaluateNextL \/ EvaluateNextV

SpecCore == InitCore /\ [][NextCore]_vars

(***************************************************************************)
(* The tier ladder alone (lines 75-81) on an arbitrary z.                  *)
(***************************************************************************)
MaxZ == 8000
NegZ == 1000
ZArgs == -NegZ..MaxZ

InitTier ==
  /\ optimal_z \in ZArgs
  /\ tier = Tier1
  /\ v_input = 0 /\ L_input = 0 /\ call = NoCall
  /\ L_range = <<>> /\ z_v1 = <<>> /\ z_v3 = <<>> /\ z_v5 = <<>> /\ z_user = <<>>
  /\ scatter = <<>>
  /\ pc = "args"
  /\ prev = NoPrev

Classify ==
  /\ pc = "args"
  /\ tier' = tier_ladder(optimal_z)
  /\ pc' = "done"
  /\ UNCHANGED <<v_input, L_input, call, optimal_z, chart, prev>>

NextTier == Classify

SpecTier == InitTier /\ [][NextTier]_vars

(***************************************************************************)
(* Properties.                                                             *)
(***************************************************************************)
Returned == pc = "done"

\* The documented input domain: v in [0, 1], L >= 0.
InDomain(v, L) == 0 <= v /\ v <= lit(1) /\ L >= 0

\* The call on the arguments chosen has a result, and the result is a number.
HasResult(v, L) ==
  LET r == calculate_optimal_investment(v, L) IN r \in Int /\ ~IsNaN(r)

\* C1: for every v in [0,1] and every L >= 0 the call has a result (no input
\* of the domain leaves it without one) and the value returned is a number
\* >= 0.
C1_NonNegativeTotal ==
  InDomain(v_input, L_input) =>
    /\ pc = "args" => HasResult(v_input, L_input)
    /\ Returned => ~IsNaN(call.ret) /\ call.ret >= 0 /\ optimal_z = call.ret

\* C1 witness: v = 0.5, L = 2: sqrt(2) - 2 is negative, and 0 is returned.
C1_Witness ==
  /\ Returned /\ v_input = 500 /\ L_input = 2000
  /\ call.sqrt_evaluated /\ call.term = 2000 /\ call.ret = 0 /\ optimal_z = 0

\* C2: the ladder gives every z exactly one of the four tiers, by inclusive
\* lower bounds: z >= 7 Tier 4, 3 <= z < 7 Tier 3, 1 <= z < 3 Tier 2, z < 1
\* Tier 1; so 1.0, 3.0 and 7.0 are Tier 2, 3 and 4, and 0.999 is Tier 1.
C2_TierRanges ==
  Returned =>
    /\ tier \in Tiers
    /\ tier = Tier4 <=> optimal_z >= 7 * Scale
    /\ tier = Tier3 <=> (3 * Scale <= optimal_z /\ optimal_z < 7 * Scale)
    /\ tier = Tier2 <=> (1 * Scale <= optimal_z /\ optimal_z < 3 * Scale)
    /\ tier = Tier1 <=> optimal_z < 1 * Scale
    /\ optimal_z = 1 * Scale => tier = Tier2
    /\ optimal_z = 3 * Scale => tier = Tier3
    /\ optimal_z = 7 * Scale => tier = Tier4
    /\ optimal_z = Scale - 1 => tier = Tier1

\* C2 witness: the ladder has classified z = 7.0, as Tier 4.
C2_Witness == Returned /\ optimal_z = 7 * Scale /\ tier = Tier4

\* C3: whenever 2*v*L < 4 (in exact arithmetic) the call returns exactly 0,
\* and it returns a positive value only when 2*v*L > 4.
C3_ZeroFloor ==
  Returned =>
    /\ 2 * v_input * L_input < 4 * Scale * Scale => call.ret = 0
    /\ call.ret > 0 => 2 * v_input * L_input > 4 * Scale * Scale

\* C3 witness: v = 0.875, L = 1.125: the radicand is positive and below 4 (it
\* is 1.96875, held as 1.969), the root is taken, and 0 is returned.
C3_Witness ==
  /\ Returned /\ v_input = 875 /\ L_input = 1125
  /\ call.term = 1969 /\ call.sqrt_evaluated /\ call.ret = 0

\* C6: a negative radicand makes the call return 0 at the guard, before the
\* square root is evaluated; the guard is taken for a negative radicand and
\* for nothing else; and for any two reals the call returns a number >= 0.
C6_NegativeRadicandGuard ==
  /\ pc = "args" => HasResult(v_input, L_input)
  /\ Returned =>
       /\ call.guarded <=> call.term < 0
       /\ call.term < 0 => call.ret = 0 /\ ~call.sqrt_evaluated
       /\ ~call.guarded => call.sqrt_evaluated
       /\ ~IsNaN(call.ret) /\ call.ret >= 0

\* C6 witness: v = -0.25, L = 4.5: the radicand is -2.25 and the guard
\* returns 0.
C6_Witness ==
  /\ Returned /\ v_input = -250 /\ L_input = 4500
  /\ call.term = -2250 /\ call.guarded /\ ~call.sqrt_evaluated /\ call.ret = 0

\* C4: for a fixed v > 0 the value returned is non-decreasing in L >= 0: of
\* two consecutive calls with the same v, the one with the larger L returns
\* at least as much as the other.
C4_MonotoneInL ==
  (prev.valid /\ prev.v = v_input /\ v_input > 0 /\ prev.L >= 0 /\ L_input >= 0) =>
    /\ prev.L <= L_input => prev.ret <= call.ret
    /\ L_input <= prev.L => call.ret <= prev.ret

\* C4 witness: v = 1, and L raised from 2 (0 is returned) to 50 (8 is).
C4_Witness ==
  /\ prev.valid /\ prev.v = 1000 /\ v_input = 1000
  /\ prev.L = 2000 /\ L_input = 50000
  /\ prev.ret = 0 /\ call.ret = 8000

\* C5: for a fixed L > 0 the value returned is non-decreasing in v over
\* [0, 1]: of two consecutive calls with the same L, the one with the larger v
\* returns at least as much as the other.
C5_MonotoneInV ==
  (/\ prev.valid /\ prev.L = L_input /\ L_input > 0
   /\ 0 <= prev.v /\ prev.v <= lit(1) /\ 0 <= v_input /\ v_input <= lit(1)) =>
    /\ prev.v <= v_input => prev.ret <= call.ret
    /\ v_input <= prev.v => call.ret <= prev.ret

\* C5 witness: L = 50, and v raised from 0.125 (1.536 is returned) to 1 (8 is).
C5_Witness ==
  /\ prev.valid /\ prev.L = 50000 /\ L_input = 50000
  /\ prev.v = 125 /\ v_input = 1000
  /\ prev.ret = 1536 /\ call.ret = 8000

\* C10: within v in [0,1], L >= 0, raising L with v fixed or raising v with L
\* fixed never lowers the tier; and with v = 0 the tier is Tier 1 for every L.
C10_TierMonotone ==
  /\ (/\ prev.valid
      /\ InDomain(prev.v, prev.L) /\ InDomain(v_input, L_input)
      /\ \/ prev.v = v_input /\ prev.L <= L_input
         \/ prev.L = L_input /\ prev.v <= v_input)
       => TierRank(prev.tier) <= TierRank(tier)
  /\ (Returned /\ v_input = 0 /\ L_input >= 0) => tier = Tier1

\* C10 witness: L = 40.5 and v raised from 0.125 (Tier 2) to 1 (Tier 4).
C10_Witness ==
  /\ prev.valid /\ prev.L = 40500 /\ L_input = 40500
  /\ prev.v = 125 /\ v_input = 1000
  /\ prev.tier = Tier2 /\ tier = Tier4

\* C7: each of the four curves (v = 0.1, 0.3, 0.5 and the user's v) has
\* exactly 300 points, over L coordinates that start at 0, end at 150 and
\* strictly increase, and each point's y is calculate_optimal_investment of
\* the curve's v and the point's L.
C7_ChartCurves ==
  Returned =>
    /\ Len(L_range) = 300
    /\ L_range[1] = 0
    /\ L_range[300] = 150 * Scale
    /\ \A k \in 1..299 : L_range[k] < L_range[k + 1]
    /\ Len(z_v1) = 300 /\ Len(z_v3) = 300 /\ Len(z_v5) = 300 /\ Len(z_user) = 300
    /\ \A k \in 1..300 :
         /\ z_v1[k] = calculate_optimal_investment(100, L_range[k])
         /\ z_v3[k] = calculate_optimal_investment(300, L_range[k])
         /\ z_v5[k] = calculate_optimal_investment(500, L_range[k])
         /\ z_user[k] = calculate_optimal_investment(v_input, L_range[k])

\* C7 witness: the user has moved v to 1.0; the user curve ends at
\* (150, sqrt(300) - 2) and the v = 0.5 curve at (150, sqrt(150) - 2).
C7_Witness ==
  /\ Returned /\ v_input = 1000
  /\ Len(z_user) = 300 /\ L_range[300] = 150000
  /\ z_user[300] = 15321 /\ z_v5[300] = 10247 /\ z_user[1] = 0

\* C8: at the slider defaults v = 0.3, L = 72.6 the radicand is 43.56, the
\* optimal investment is 4.6 and the tier is Tier 3 (Repeatable).
C8_DefaultScenario ==
  (Returned /\ v_input = 300 /\ L_input = 72600) =>
    /\ call.term = 43560
    /\ optimal_z = 4600
    /\ tier = "Tier 3 (Repeatable)"

\* C8 witness: the script has run with the sliders at their defaults, and
\* the highlighted point is (72.6, 4.6).
C8_Witness ==
  /\ Returned /\ v_input = v_value /\ L_input = L_value
  /\ optimal_z = 4600 /\ tier = Tier3 /\ scatter = <<72600, 4600>>

\* C9: after any sequence of slider changes the optimal investment, the tier,
\* the user curve and the highlighted point are those computed from the
\* current (v, L) alone, so two histories ending in the same (v, L) show the
\* same outputs and nothing of an earlier interaction remains.
C9_Stateless ==
  Returned =>
    /\ call = calculate_optimal_investment_run(v_input, L_input)
    /\ optimal_z = calculate_optimal_investment(v_input, L_input)
    /\ tier = tier_ladder(calculate_optimal_investment(v_input, L_input))
    /\ z_user = curve(v_input, L_range_value)
    /\ scatter = <<L_input, calculate_optimal_investment(v_input, L_input)>>
    /\ L_range = L_range_value
    /\ z_v1 = z_v1_value /\ z_v3 = z_v3_value /\ z_v5 = z_v5_value

\* C9 witness: the user has moved both sliders, to v = 1.0 and L = 150, and
\* the outputs are those of (1.0, 150): 15.321, Tier 4.
C9_Witness ==
  /\ Returned /\ v_input = 1000 /\ L_input = 150000
  /\ optimal_z = 15321 /\ tier = Tier4 /\ scatter = <<150000, 15321>>

====
